---- MODULE Spec2Model ----
(***************************************************************************)
(* A model of the contact book of src/classes.py and src/main.py: the      *)
(* validated fields, Record, AddressBook with its paging generator, and    *)
(* the command loop of main.py.                                            *)
(*                                                                         *)
(* A Python str is modelled as a tuple of one-character strings, so that   *)
(* len(), isdigit(), re.match and strptime are computed character by       *)
(* character.  None is the tuple <<"None">>, which is no such tuple of     *)
(* single characters.                                                      *)
(***************************************************************************)
EXTENDS Integers, Sequences, FiniteSets, TLC

VARIABLES
    module,   \* which copy of the classes is in use: "classes" or "main"
    heap,     \* the Record objects: id -> record (live = FALSE: no such object)
    book,     \* AddressBook.data: the ids of its records in insertion order
    last,     \* the last call made: operation, arguments, state before, outcome
    gen,      \* the generator object returned by AddressBook.iterator
    pages,    \* the pages the generator has yielded so far (lists of ids)
    \* History of the generator of Iterator and GenNext, for the paging claims:
    sinceCall,  \* ids added to the book since iterator() was called
    sinceFirst, \* ids added to the book since the first page was requested
    touched,  \* the book was modified since iterator() was called
    atFirst,  \* the ids in the book when the first page was requested
    now,      \* datetime.now(): <<year, month, day, seconds into the day>>
    adds,     \* the add_phone calls that have appended a phone so far
    pc,       \* the command loop of main(): "prompt", "show_more" or "ended"
    ended     \* how main() ended: "" (running), "exit" or the exception caught

vars == <<module, heap, book, last, gen, pages, sinceCall, sinceFirst, touched,
          atFirst, now, adds, pc, ended>>

----------------------------------------------------------------------------
(* Bounds of the model.                                                    *)

MaxBook == 2        \* records in the book of the Record/AddressBook model
MaxIterBook == 5    \* records in the book of the paging model
MaxPageSize == 3    \* page sizes run over -1 .. MaxPageSize
MaxYield == 6       \* pages drawn from one generator
MaxAdds == 3        \* successful add_phone calls on the record

----------------------------------------------------------------------------
(* Strings.                                                                *)

None == <<"None">>

Digits == {"0", "1", "2", "3", "4", "5", "6", "7", "8", "9"}

Letters ==
    {"a", "b", "c", "d", "e", "f", "g", "h", "i", "j", "k", "l", "m",
     "n", "o", "p", "q", "r", "s", "t", "u", "v", "w", "x", "y", "z",
     "A", "B", "C", "D", "E", "F", "G", "H", "I", "J", "K", "L", "M",
     "N", "O", "P", "Q", "R", "S", "T", "U", "V", "W", "X", "Y", "Z"}

DigitValue ==
    ("0" :> 0) @@ ("1" :> 1) @@ ("2" :> 2) @@ ("3" :> 3) @@ ("4" :> 4) @@
    ("5" :> 5) @@ ("6" :> 6) @@ ("7" :> 7) @@ ("8" :> 8) @@ ("9" :> 9)

\* Python truthiness of an optional str: None and "" are falsy.
Truthy(s) == s # None /\ Len(s) > 0

\* str.isdigit(): non-empty and every character a digit.
IsDigit(s) == Len(s) > 0 /\ \A i \in 1..Len(s) : s[i] \in Digits

\* re.match(r"^[A-Za-z]*$", s): $ also matches before one trailing newline.
MatchLetters(s) ==
    \/ \A i \in 1..Len(s) : s[i] \in Letters
    \/ /\ Len(s) >= 1
       /\ s[Len(s)] = "\n"
       /\ \A i \in 1..(Len(s) - 1) : s[i] \in Letters

\* The check of Phone's setter: the value is stored unless it raises.
PhoneOk(s) == ~(Len(s) # 10 \/ ~IsDigit(s))

\* Name's setter: classes.py validates, main.py's Name is a plain Field.
NameOk(mod, s) ==
    IF mod = "classes" THEN Len(s) > 0 /\ MatchLetters(s) ELSE TRUE

----------------------------------------------------------------------------
(* Dates.                                                                  *)

IsLeap(y) == (y % 4 = 0) /\ ((y % 100 # 0) \/ (y % 400 = 0))

DaysInMonth(y, m) ==
    IF m = 2 THEN (IF IsLeap(y) THEN 29 ELSE 28)
    ELSE IF m \in {4, 6, 9, 11} THEN 30 ELSE 31

\* datetime's constructor accepts exactly these (MINYEAR = 1, MAXYEAR = 9999).
ValidDate(y, m, d) ==
    /\ y >= 1 /\ y <= 9999
    /\ m >= 1 /\ m <= 12
    /\ d >= 1 /\ d <= DaysInMonth(y, m)

RECURSIVE DaysBeforeMonth(_, _)
DaysBeforeMonth(y, m) ==
    IF m = 1 THEN 0 ELSE DaysBeforeMonth(y, m - 1) + DaysInMonth(y, m - 1)

DaysBeforeYear(y) ==
    LET p == y - 1 IN p * 365 + (p \div 4) - (p \div 100) + (p \div 400)

\* date.toordinal()
Ordinal(y, m, d) == DaysBeforeYear(y) + DaysBeforeMonth(y, m) + d

\* The indices of the "-" characters of s.
Dashes(s) == {i \in 1..Len(s) : s[i] = "-"}

RECURSIVE ToInt(_)
ToInt(s) ==
    IF Len(s) = 0 THEN 0
    ELSE 10 * ToInt(SubSeq(s, 1, Len(s) - 1)) + DigitValue[s[Len(s)]]

\* The directives of _strptime: %Y is \d\d\d\d, %m is 1[0-2]|0[1-9]|[1-9],
\* %d is 3[01]|[12]\d|0[1-9]|[1-9]| [1-9].
MatchY(s) == Len(s) = 4 /\ IsDigit(s)
MatchM(s) == Len(s) \in {1, 2} /\ IsDigit(s) /\ ToInt(s) \in 1..12
MatchD(s) ==
    \/ Len(s) \in {1, 2} /\ IsDigit(s) /\ ToInt(s) \in 1..31
    \/ Len(s) = 2 /\ s[1] = " " /\ s[2] \in Digits \ {"0"}

DayInt(s) == IF s[1] = " " THEN DigitValue[s[2]] ELSE ToInt(s)

\* datetime.strptime(s, "%Y-%m-%d"): ok = FALSE where it raises ValueError.
NoDate == <<0, 0, 0>>
Strptime(s) ==
    LET ds == Dashes(s) IN
    IF Cardinality(ds) # 2 THEN [ok |-> FALSE, date |-> NoDate]
    ELSE
        LET i == CHOOSE k \in ds : \A j \in ds : k <= j
            j == CHOOSE k \in ds : \A l \in ds : k >= l
            ys == SubSeq(s, 1, i - 1)
            ms == SubSeq(s, i + 1, j - 1)
            dd == SubSeq(s, j + 1, Len(s))
        IN IF MatchY(ys) /\ MatchM(ms) /\ MatchD(dd)
              /\ ValidDate(ToInt(ys), ToInt(ms), DayInt(dd))
           THEN [ok |-> TRUE, date |-> <<ToInt(ys), ToInt(ms), DayInt(dd)>>]
           ELSE [ok |-> FALSE, date |-> NoDate]

----------------------------------------------------------------------------
(* Record.                                                                 *)

NoBirthday == [set |-> FALSE, value |-> <<>>, date |-> NoDate]

NoRecord == [live |-> FALSE, name |-> <<>>, phones |-> <<>>,
             birthday |-> NoBirthday]

\* Record.__init__: Name(name), then Birthday(birthday) if birthday is truthy.
\* ok = FALSE where a setter raises ValueError.
RecordNew(mod, name, birthday) ==
    IF ~NameOk(mod, name) THEN [ok |-> FALSE, rec |-> NoRecord]
    ELSE IF ~Truthy(birthday)
    THEN [ok |-> TRUE,
          rec |-> [live |-> TRUE, name |-> name, phones |-> <<>>,
                   birthday |-> NoBirthday]]
    ELSE LET p == Strptime(birthday) IN
         IF ~p.ok THEN [ok |-> FALSE, rec |-> NoRecord]
         ELSE [ok |-> TRUE,
               rec |-> [live |-> TRUE, name |-> name, phones |-> <<>>,
                        birthday |-> [set |-> TRUE, value |-> birthday,
                                      date |-> p.date]]]

\* add_phone with the capacity test off by one (<= 2 for < 2).
add_phone_off_by_one(phones, phone) ==
    IF Len(phones) <= 2
    THEN IF PhoneOk(phone)
         THEN [phones |-> Append(phones, phone), err |-> "ok"]
         ELSE [phones |-> phones, err |-> "format"]
    ELSE [phones |-> phones, err |-> "capacity"]

\* Record.add_phone: the capacity test comes first, then Phone(phone).
add_phone(phones, phone) ==
    IF Len(phones) < 2
    THEN IF PhoneOk(phone)
         THEN [phones |-> Append(phones, phone), err |-> "ok"]
         ELSE [phones |-> phones, err |-> "format"]
    ELSE [phones |-> phones, err |-> "capacity"]

\* Record.remove_phone: keeps the phones that differ from phone.
remove_phone(phones, phone) == SelectSeq(phones, LAMBDA p : p # phone)

\* edit_phone that stops at the first phone equal to old_phone.
edit_phone_first_only(phones, old_phone, new_phone) ==
    IF Len(new_phone) # 10 \/ ~IsDigit(new_phone)
    THEN [phones |-> phones, err |-> "format"]
    ELSE LET hits == {i \in 1..Len(phones) : phones[i] = old_phone}
             first == CHOOSE i \in hits : \A j \in hits : i <= j
         IN IF hits = {} THEN [phones |-> phones, err |-> "notfound"]
            ELSE [phones |-> [phones EXCEPT ![first] = new_phone],
                  err |-> "ok"]

\* edit_phone that checks new_phone after the phones were set.
edit_phone_check_last(phones, old_phone, new_phone) ==
    LET found == \E i \in 1..Len(phones) : phones[i] = old_phone
        edited == [i \in 1..Len(phones) |->
                      IF phones[i] = old_phone THEN new_phone ELSE phones[i]]
    IN [phones |-> edited,
        err |-> IF Len(new_phone) # 10 \/ ~IsDigit(new_phone) THEN "format"
                ELSE IF found THEN "ok" ELSE "notfound"]

\* Record.edit_phone: new_phone is checked first; then every phone equal to
\* old_phone is set to new_phone; not found raises.
edit_phone(phones, old_phone, new_phone) ==
    IF Len(new_phone) # 10 \/ ~IsDigit(new_phone)
    THEN [phones |-> phones, err |-> "format"]
    ELSE LET found == \E i \in 1..Len(phones) : phones[i] = old_phone
             edited == [i \in 1..Len(phones) |->
                           IF phones[i] = old_phone THEN new_phone
                           ELSE phones[i]]
         IN [phones |-> edited,
             err |-> IF found THEN "ok" ELSE "notfound"]

\* Record.find_phone: the first phone equal to phone, or None.
find_phone(phones, phone) ==
    IF \E i \in 1..Len(phones) : phones[i] = phone
    THEN phones[CHOOSE i \in 1..Len(phones) :
                    /\ phones[i] = phone
                    /\ \A j \in 1..(i - 1) : phones[j] # phone]
    ELSE None

\* datetime.replace(year = y) of a midnight date: raises ValueError when the
\* date does not exist in year y.
ReplaceYear(date, y) ==
    IF ValidDate(y, date[2], date[3])
    THEN [ok |-> TRUE, date |-> <<y, date[2], date[3]>>]
    ELSE [ok |-> FALSE, date |-> NoDate]

\* today > birthdate, birthdate being a midnight.
After(today, date) ==
    LET t == Ordinal(today[1], today[2], today[3])
        b == Ordinal(date[1], date[2], date[3])
    IN t > b \/ (t = b /\ today[4] > 0)

\* (birthdate - today).days: timedelta normalises with 0 <= seconds < 86400,
\* so the days are the floor of the difference.
DeltaDays(date, today) ==
    LET t == Ordinal(today[1], today[2], today[3])
        b == Ordinal(date[1], date[2], date[3])
    IN (b - t) + ((0 - today[4]) \div 86400)

\* Record.days_to_birthday: kind "none", "days" or "ValueError" (raised).
days_to_birthday(rec, today) ==
    IF ~rec.birthday.set THEN [kind |-> "none", days |-> 0]
    ELSE LET b1 == ReplaceYear(rec.birthday.date, today[1]) IN
         IF ~b1.ok THEN [kind |-> "ValueError", days |-> 0]
         ELSE IF After(today, b1.date)
         THEN LET b2 == ReplaceYear(b1.date, today[1] + 1) IN
              IF ~b2.ok THEN [kind |-> "ValueError", days |-> 0]
              ELSE [kind |-> "days", days |-> DeltaDays(b2.date, today)]
         ELSE [kind |-> "days", days |-> DeltaDays(b1.date, today)]

----------------------------------------------------------------------------
(* AddressBook.                                                            *)

Range(s) == {s[i] : i \in 1..Len(s)}

\* The keys of self.data.
Keys(bk, hp) == {hp[id].name : id \in Range(bk)}

\* list(self.data.values()), as values.
Values(bk, hp) == [i \in 1..Len(bk) |-> hp[bk[i]]]

\* AddressBook.find: the id of the record under name, 0 for None.
find(bk, hp, name) ==
    IF name \in Keys(bk, hp)
    THEN CHOOSE id \in Range(bk) : hp[id].name = name
    ELSE 0

\* AddressBook.delete: del self.data[name] if present.
delete(bk, hp, name) == SelectSeq(bk, LAMBDA id : hp[id].name # name)

\* AddressBook.add_record: self.data[record.name.value] = record; an
\* existing key keeps its place in the dict.
add_record(bk, hp, id, rec) ==
    IF rec.name \in Keys(bk, hp)
    THEN [i \in 1..Len(bk) |-> IF hp[bk[i]].name = rec.name THEN id ELSE bk[i]]
    ELSE Append(bk, id)

\* The objects something still refers to: the dict, the suspended generator's
\* snapshot, and the pages handed to the consumer.  The others are freed.
Referenced(bk, g, pgs) ==
    Range(bk) \cup Range(g.records) \cup UNION {Range(pgs[i]) : i \in 1..Len(pgs)}

Collect(hp, refs) ==
    [id \in DOMAIN hp |-> IF id \in refs THEN hp[id] ELSE NoRecord]

FreeIds(hp) == {id \in DOMAIN hp : ~hp[id].live}

NewId(hp) == CHOOSE id \in FreeIds(hp) : \A o \in FreeIds(hp) : id <= o

\* add_contact without its duplicate test.
HasNameSkipped(bk, hp, name) == FALSE

\* The duplicate test of add_contact: name in self.data.
HasName(bk, hp, name) == name \in Keys(bk, hp)

\* AddressBook.add_contact: the checks in the order of the code; err names
\* the check that stopped the call, "ok" when the record was inserted as id.
add_contact(mod, bk, hp, name, phone1, phone2, birthday) ==
    LET same == [book |-> bk, heap |-> hp, id |-> 0] IN
    IF ~Truthy(name) THEN same @@ [err |-> "invalid_name"]
    ELSE IF HasName(bk, hp, name) THEN same @@ [err |-> "exists"]
    ELSE IF ~NameOk(mod, name) THEN same @@ [err |-> "name"]
    ELSE IF ~PhoneOk(phone1) THEN same @@ [err |-> "phone1"]
    ELSE IF Truthy(phone2) /\ ~PhoneOk(phone2) THEN same @@ [err |-> "phone2"]
    ELSE LET r == RecordNew(mod, name, birthday) IN
         IF ~r.ok THEN same @@ [err |-> "record"]
         ELSE LET a1 == add_phone(r.rec.phones, phone1)
                  a2 == IF Truthy(phone2) THEN add_phone(a1.phones, phone2)
                        ELSE a1
                  rec == [r.rec EXCEPT !.phones = a2.phones]
                  id == NewId(hp)
                  hp2 == [hp EXCEPT ![id] = rec]
              IN [book |-> add_record(bk, hp2, id, rec), heap |-> hp2,
                  id |-> id, err |-> "ok"]

----------------------------------------------------------------------------
(* The paging generator of AddressBook.iterator.                           *)

NoGen == [status |-> "none", page_size |-> 0, total_records |-> 0,
          records |-> <<>>, current_page |-> 0]

Min(a, b) == IF a < b THEN a ELSE b
Max(a, b) == IF a > b THEN a ELSE b

\* A slice bound as list.__getitem__ clamps it.
Clamp(i, n) == IF i < 0 THEN Max(i + n, 0) ELSE Min(i, n)

\* s[i : j] of a Python list (0-based, j exclusive).
PySlice(s, i, j) == SubSeq(s, Clamp(i, Len(s)) + 1, Clamp(j, Len(s)))

----------------------------------------------------------------------------
(* The calls.  Each action is one call of the method it is named after.    *)
(* last records the call and its outcome; pre is what the call was made    *)
(* on: the values of the book for add_contact, the record for a call on a  *)
(* record.                                                                 *)

NoCall == [op |-> "none", name |-> None, a |-> None, b |-> None, c |-> None,
           pre |-> <<>>, err |-> "ok", n |-> 0]

Iterating == gen.status \in {"created", "running"}

\* What a change of the book means to the bookkeeping of the iteration.
NoteAdded(id) ==
    /\ sinceCall' = IF gen.status # "none" THEN sinceCall \cup {id} ELSE sinceCall
    /\ sinceFirst' = IF gen.status \in {"running", "done"}
                     THEN sinceFirst \cup {id} ELSE sinceFirst
    /\ touched' = (touched \/ gen.status # "none")

\* book.add_contact(name, phone1, phone2, birthday), the book holding at most
\* cap records.
AddContact(cap, name, phone1, phone2, birthday) ==
    LET r == add_contact(module, book, heap, name, phone1, phone2, birthday) IN
    /\ Len(r.book) <= cap
    /\ book' = r.book
    /\ heap' = r.heap
    /\ last' = [NoCall EXCEPT !.op = "add_contact", !.name = name,
                              !.a = phone1, !.b = phone2, !.c = birthday,
                              !.pre = Values(book, heap), !.err = r.err]
    /\ IF r.err = "ok" THEN NoteAdded(r.id)
       ELSE UNCHANGED <<sinceCall, sinceFirst, touched>>
    /\ UNCHANGED <<module, gen, pages, atFirst, now, adds, pc, ended>>

\* book.delete(name)
Delete(name) ==
    LET bk == delete(book, heap, name) IN
    /\ book' = bk
    /\ heap' = Collect(heap, Referenced(bk, gen, pages))
    /\ last' = [NoCall EXCEPT !.op = "delete", !.name = name]
    /\ touched' = (touched \/ (gen.status # "none" /\ bk # book))
    /\ UNCHANGED <<module, gen, pages, sinceCall, sinceFirst, atFirst, now,
                   adds, pc, ended>>

\* A call on the record book.find(name) returns, which sets its phones as
\* res says.
OnRecord(name, op, a, b, res) ==
    LET id == find(book, heap, name) IN
    /\ id # 0
    /\ adds' = IF op = "add_phone" /\ res.err = "ok" THEN adds + 1 ELSE adds
    /\ adds' <= MaxAdds
    /\ heap' = [heap EXCEPT ![id].phones = res.phones]
    /\ last' = [NoCall EXCEPT !.op = op, !.name = name, !.a = a, !.b = b,
                              !.pre = <<heap[id]>>, !.err = res.err]
    /\ UNCHANGED <<module, book, gen, pages, sinceCall, sinceFirst, touched,
                   atFirst, now, pc, ended>>

\* book.find(name).add_phone(phone)
AddPhone(name, phone) ==
    LET id == find(book, heap, name) IN
    OnRecord(name, "add_phone", phone, None, add_phone(heap[id].phones, phone))

\* book.find(name).remove_phone(phone)
RemovePhone(name, phone) ==
    LET id == find(book, heap, name) IN
    OnRecord(name, "remove_phone", phone, None,
             [phones |-> remove_phone(heap[id].phones, phone), err |-> "ok"])

\* book.find(name).edit_phone(old_phone, new_phone)
EditPhone(name, old_phone, new_phone) ==
    LET id == find(book, heap, name) IN
    OnRecord(name, "edit_phone", old_phone, new_phone,
             edit_phone(heap[id].phones, old_phone, new_phone))

\* A generator that slices the values of the book as they are at each page.
SourceLive(g, bk) == bk

\* The list the generator slices: its snapshot records.
Source(g, bk) == g.records

\* A slice that runs one record into the next page.
PageInclusive(records, current_page, page_size) ==
    PySlice(records, current_page, current_page + page_size + 1)

\* records[current_page : current_page + page_size]
Page(records, current_page, page_size) ==
    PySlice(records, current_page, current_page + page_size)

\* book.iterator(page_size): a generator function, so the call runs none of
\* its body; the generator and the pages of an earlier call are dropped.
Iterator(page_size) ==
    /\ gen' = [NoGen EXCEPT !.status = "created", !.page_size = page_size]
    /\ pages' = <<>>
    /\ heap' = Collect(heap, Range(book))
    /\ sinceCall' = {}
    /\ sinceFirst' = {}
    /\ touched' = FALSE
    /\ atFirst' = <<>>
    /\ last' = [NoCall EXCEPT !.op = "iterator"]
    /\ UNCHANGED <<module, book, now, adds, pc, ended>>

\* The generator resumed: from the start of the body on the first next(),
\* after the yield on the later ones; then the loop test, and the next yield
\* or the return.
Resume(g, bk) ==
    LET g1 == IF g.status = "created"
              THEN [g EXCEPT !.total_records = Len(bk), !.records = bk,
                             !.current_page = 0]
              ELSE [g EXCEPT !.current_page = @ + g.page_size]
    IN IF g1.current_page < g1.total_records
       THEN [gen |-> [g1 EXCEPT !.status = "running"],
             yield |-> <<Page(Source(g1, bk), g1.current_page, g1.page_size)>>]
       ELSE [gen |-> [g1 EXCEPT !.status = "done", !.records = <<>>],
             yield |-> <<>>]

\* next(generator), at most MaxYield pages being drawn.
GenNext ==
    /\ Iterating
    /\ Len(pages) < MaxYield
    /\ LET r == Resume(gen, book) IN
       /\ gen' = r.gen
       /\ pages' = pages \o r.yield
       /\ heap' = Collect(heap, Referenced(book, r.gen, pages \o r.yield))
    /\ atFirst' = IF gen.status = "created" THEN book ELSE atFirst
    /\ last' = [NoCall EXCEPT !.op = "next"]
    /\ UNCHANGED <<module, book, sinceCall, sinceFirst, touched, now, adds, pc,
                   ended>>

\* book.find(name).days_to_birthday(), datetime.now() being now.
DaysToBirthday(name) ==
    LET id == find(book, heap, name)
        r == days_to_birthday(heap[id], now)
    IN /\ id # 0
       /\ last' = [NoCall EXCEPT !.op = "days_to_birthday", !.name = name,
                                 !.pre = <<heap[id]>>, !.err = r.kind,
                                 !.n = r.days]
       /\ UNCHANGED <<module, heap, book, gen, pages, sinceCall, sinceFirst,
                      touched, atFirst, now, adds, pc, ended>>

\* The clock of datetime.now(): to a later second of the day, then to the
\* next day.
NextDay(t) ==
    IF t[3] < DaysInMonth(t[1], t[2]) THEN <<t[1], t[2], t[3] + 1, 0>>
    ELSE IF t[2] < 12 THEN <<t[1], t[2] + 1, 1, 0>>
    ELSE <<t[1] + 1, 1, 1, 0>>

Later(t) ==
    IF t[4] = 0 THEN <<t[1], t[2], t[3], 1>>
    ELSE IF t[4] < 86399 THEN <<t[1], t[2], t[3], 86399>>
    ELSE NextDay(t)

Tick(lastYear) ==
    /\ Later(now)[1] <= lastYear
    /\ now' = Later(now)
    /\ last' = NoCall
    /\ UNCHANGED <<module, heap, book, gen, pages, sinceCall, sinceFirst,
                   touched, atFirst, adds, pc, ended>>

----------------------------------------------------------------------------
(* add_contact calls, in any order, on either copy of the classes.  (The   *)
(* book of SpecIter and of SpecMain also loses records.)                   *)

Str10(c) == [i \in 1..10 |-> c]

NameInputs == {<<"a">>, <<"a", "1">>, <<"a", "\n">>, <<>>}

ShortPhone == <<"1", "2", "3">>
AlphaPhone == [i \in 1..10 |-> IF i = 4 THEN "x" ELSE "5"]

PhoneInputs == {Str10("1"), Str10("2"), ShortPhone, AlphaPhone}
Phone1Inputs == {Str10("1"), ShortPhone}
Phone2Inputs == {None, Str10("2"), AlphaPhone}

BirthdayInputs ==
    {None,
     <<"2", "0", "0", "0", "-", "0", "2", "-", "2", "9">>,
     <<"2", "0", "0", "1", "-", "0", "2", "-", "2", "9">>}

SomeNow == <<2023, 3, 1, 0>>

Init ==
    /\ module \in {"classes", "main"}
    /\ heap = [id \in 1..(MaxBook + 1) |-> NoRecord]
    /\ book = <<>>
    /\ last = NoCall
    /\ gen = NoGen
    /\ pages = <<>>
    /\ sinceCall = {}
    /\ sinceFirst = {}
    /\ touched = FALSE
    /\ atFirst = <<>>
    /\ now = SomeNow
    /\ adds = 0
    /\ pc = "prompt"
    /\ ended = ""

Next ==
    \/ \E n \in NameInputs, p1 \in Phone1Inputs, p2 \in Phone2Inputs,
          b \in BirthdayInputs :
          AddContact(MaxBook, n, p1, p2, b)

Spec == Init /\ [][Next]_vars

----------------------------------------------------------------------------
(* The calls on one Record, in any order: the book holds Record("a").      *)

InitRec ==
    /\ module \in {"classes", "main"}
    /\ heap = <<RecordNew(module, <<"a">>, None).rec>>
    /\ book = <<1>>
    /\ last = NoCall
    /\ gen = NoGen
    /\ pages = <<>>
    /\ sinceCall = {}
    /\ sinceFirst = {}
    /\ touched = FALSE
    /\ atFirst = <<>>
    /\ now = SomeNow
    /\ adds = 0
    /\ pc = "prompt"
    /\ ended = ""

NextRec ==
    \/ \E p \in PhoneInputs : AddPhone(<<"a">>, p)
    \/ \E p \in PhoneInputs : RemovePhone(<<"a">>, p)
    \/ \E o \in PhoneInputs, p \in PhoneInputs : EditPhone(<<"a">>, o, p)

SpecRec == InitRec /\ [][NextRec]_vars

----------------------------------------------------------------------------
(* Paging: iterator() and next() among add_contact and delete calls.       *)

Alphabet == <<"a", "b", "c", "d", "e", "f", "g", "h", "i">>

\* Names are only compared with each other, so a new contact takes the name
\* after the last one in the book, and the contact deleted is "a".
FreeName(bk, hp) ==
    LET used == {k \in 1..Len(Alphabet) : <<Alphabet[k]>> \in Keys(bk, hp)}
        k == IF used = {} THEN 1
             ELSE 1 + CHOOSE m \in used : \A j \in used : j <= m
    IN <<Alphabet[k]>>

PageSizes == (-1)..MaxPageSize

InitIter ==
    /\ module \in {"classes", "main"}
    /\ heap = [id \in 1..(2 * MaxIterBook + 1) |-> NoRecord]
    /\ book = <<>>
    /\ last = NoCall
    /\ gen = NoGen
    /\ pages = <<>>
    /\ sinceCall = {}
    /\ sinceFirst = {}
    /\ touched = FALSE
    /\ atFirst = <<>>
    /\ now = SomeNow
    /\ adds = 0
    /\ pc = "prompt"
    /\ ended = ""

NextIter ==
    \/ \E n \in {FreeName(book, heap)} :
          AddContact(MaxIterBook, n, Str10("1"), None, None)
    \/ \E n \in {<<"a">>} : Delete(n)
    \/ \E ps \in PageSizes : Iterator(ps)
    \/ GenNext

SpecIter == InitIter /\ [][NextIter]_vars

----------------------------------------------------------------------------
(* days_to_birthday of one record, at the times of two years: 2023, which  *)
(* has no 29 February, then 2024, which has one.                           *)

Chars(y, m, d) ==
    <<y[1], y[2], y[3], y[4], "-", m[1], m[2], "-", d[1], d[2]>>

BirthdaySamples ==
    {None,
     Chars(<<"2", "0", "0", "0">>, <<"0", "1">>, <<"0", "1">>),
     Chars(<<"2", "0", "0", "0">>, <<"0", "2">>, <<"2", "9">>),
     Chars(<<"1", "9", "9", "9">>, <<"0", "3">>, <<"0", "1">>),
     Chars(<<"1", "9", "9", "9">>, <<"1", "2">>, <<"3", "1">>),
     <<"2", "0", "0", "1", "-", "7", "-", "4">>}

FirstYear == 2023
LastYear == 2024

InitDays ==
    /\ module \in {"classes", "main"}
    /\ \E b \in BirthdaySamples :
          heap = <<RecordNew(module, <<"a">>, b).rec>>
    /\ book = <<1>>
    /\ last = NoCall
    /\ gen = NoGen
    /\ pages = <<>>
    /\ sinceCall = {}
    /\ sinceFirst = {}
    /\ touched = FALSE
    /\ atFirst = <<>>
    /\ now = <<FirstYear, 1, 1, 0>>
    /\ adds = 0
    /\ pc = "prompt"
    /\ ended = ""

NextDays ==
    \/ DaysToBirthday(<<"a">>)
    \/ Tick(LastYear)

SpecDays == InitDays /\ [][NextDays]_vars

----------------------------------------------------------------------------
(* The command loop of main() in src/main.py.  A line of input is the list *)
(* of its tokens, which is what str.split() makes of it.                   *)

Upper == <<"A", "B", "C", "D", "E", "F", "G", "H", "I", "J", "K", "L", "M",
           "N", "O", "P", "Q", "R", "S", "T", "U", "V", "W", "X", "Y", "Z">>
Lower == <<"a", "b", "c", "d", "e", "f", "g", "h", "i", "j", "k", "l", "m",
           "n", "o", "p", "q", "r", "s", "t", "u", "v", "w", "x", "y", "z">>

\* str.lower()
LowerChar(c) ==
    IF \E i \in 1..Len(Upper) : Upper[i] = c
    THEN Lower[CHOOSE i \in 1..Len(Upper) : Upper[i] = c]
    ELSE c
ToLower(w) == [i \in 1..Len(w) |-> LowerChar(w[i])]

wAdd == <<"a", "d", "d">>
wShow == <<"s", "h", "o", "w">>
wFind == <<"f", "i", "n", "d">>
wEdit == <<"e", "d", "i", "t">>
wDelete == <<"d", "e", "l", "e", "t", "e">>
wExit == <<"e", "x", "i", "t">>

\* parse_command: no token gives (None, []); else the first token in lower
\* case and the rest.
parse_command(parts) ==
    IF Len(parts) < 1 THEN [action |-> None, args |-> <<>>]
    ELSE [action |-> ToLower(parts[1]), args |-> Tail(parts)]

\* user_input == "exit" or user_input == "6", of the stripped line.
IsExit(parts) == parts = <<wExit>> \/ parts = <<<<"6">>>>

\* int(text) for a token: an optional sign and digits; ok = FALSE where it
\* raises ValueError.
IntParse(text) ==
    LET neg == Len(text) >= 1 /\ text[1] = "-"
        body == IF Len(text) >= 1 /\ text[1] \in {"-", "+"}
                THEN Tail(text) ELSE text
    IN IF IsDigit(body)
       THEN [ok |-> TRUE, value |-> IF neg THEN 0 - ToInt(body) ELSE ToInt(body)]
       ELSE [ok |-> FALSE, value |-> 0]

\* str(record) raises what days_to_birthday raises: __str__ calls it when
\* the record has a birthday.
StrRaises(rec, today) ==
    rec.birthday.set /\ days_to_birthday(rec, today).kind = "ValueError"

\* print(record) for the records of a page raises.
PrintRaises(page, hp, today) ==
    \E i \in 1..Len(page) : StrRaises(hp[page[i]], today)

AtPrompt(line) == pc = "prompt" /\ ~IsExit(line)

\* The loop is back at its prompt; what the command did is in last.
Prompt(op, err) ==
    /\ pc' = "prompt"
    /\ last' = [NoCall EXCEPT !.op = op, !.err = err]
    /\ UNCHANGED <<module, now, adds, ended, atFirst>>

NoIteration ==
    /\ gen' = NoGen
    /\ pages' = <<>>

\* "exit" or "6": Goodbye, and break.
CmdExit(line) ==
    /\ pc = "prompt"
    /\ IsExit(line)
    /\ pc' = "ended"
    /\ ended' = "exit"
    /\ last' = [NoCall EXCEPT !.op = "exit"]
    /\ UNCHANGED <<module, heap, book, gen, pages, sinceCall, sinceFirst,
                   touched, atFirst, now, adds>>

\* add name phone1 [phone2 [birthday]]
CmdAdd(line) ==
    LET c == parse_command(line)
        args == c.args
    IN /\ AtPrompt(line)
       /\ c.action = wAdd
       /\ IF Len(args) >= 2
          THEN LET phone2 == IF Len(args) > 2 THEN args[3] ELSE None
                   birthday == IF Len(args) > 3 THEN args[4] ELSE None
                   r == add_contact(module, book, heap, args[1], args[2],
                                    phone2, birthday)
               IN /\ Len(r.book) <= MaxBook
                  /\ book' = r.book
                  /\ heap' = r.heap
                  /\ Prompt("add", r.err)
                  /\ IF r.err = "ok" THEN NoteAdded(r.id)
                     ELSE UNCHANGED <<sinceCall, sinceFirst, touched>>
          ELSE /\ Prompt("add", "arguments")
               /\ UNCHANGED <<heap, book, sinceCall, sinceFirst, touched>>
       /\ UNCHANGED <<gen, pages>>

\* The for loop over book.iterator(page_size) asks the generator g for its
\* next page and prints it; a ValueError raised by print(record) is taken by
\* the except clause of the show branch, which leaves the loop.
ShowPage(g, op) ==
    LET r == Resume(g, book) IN
    /\ IF r.yield = <<>>
       THEN NoIteration /\ Prompt(op, "ok")
       ELSE IF PrintRaises(r.yield[1], heap, now)
       THEN NoIteration /\ Prompt(op, "invalid_number")
       ELSE /\ gen' = r.gen
            /\ pages' = Append(pages, r.yield[1])
            /\ pc' = "show_more"
            /\ last' = [NoCall EXCEPT !.op = op]
            /\ UNCHANGED <<module, now, adds, ended, atFirst>>
    /\ UNCHANGED <<heap, book, sinceCall, sinceFirst, touched>>

\* show, or 2: the page size is read from a second line.
CmdShow(line, text) ==
    LET c == parse_command(line)
        p == IntParse(text)
    IN /\ AtPrompt(line)
       /\ c.action \in {wShow, <<"2">>}
       /\ IF p.ok
          THEN ShowPage([NoGen EXCEPT !.status = "created",
                                      !.page_size = p.value], "show")
          ELSE /\ Prompt("show", "invalid_number")
               /\ UNCHANGED <<heap, book, gen, pages, sinceCall, sinceFirst,
                              touched>>

\* The answer to "Show more?": 2 goes on with the next page, at most MaxYield
\* pages being shown; any other answer breaks.
ShowMore(text) ==
    /\ pc = "show_more"
    /\ IF ToLower(text) # <<"2">>
       THEN /\ NoIteration
            /\ Prompt("show_more", "ok")
            /\ UNCHANGED <<heap, book, sinceCall, sinceFirst, touched>>
       ELSE /\ Len(pages) < MaxYield
            /\ ShowPage(gen, "show_more")

\* edit name old_phone new_phone
CmdEdit(line) ==
    LET c == parse_command(line)
        args == c.args
    IN /\ AtPrompt(line)
       /\ c.action = wEdit
       /\ IF Len(args) = 3
          THEN LET id == find(book, heap, args[1]) IN
               IF id # 0
               THEN LET r == edit_phone(heap[id].phones, args[2], args[3]) IN
                    /\ heap' = [heap EXCEPT ![id].phones = r.phones]
                    /\ Prompt("edit", r.err)
               ELSE /\ Prompt("edit", "no_contact")
                    /\ UNCHANGED heap
          ELSE /\ Prompt("edit", "arguments")
               /\ UNCHANGED heap
       /\ UNCHANGED <<book, gen, pages, sinceCall, sinceFirst, touched>>

\* find name: find_contact prints the record; what print(record) raises
\* leaves main(), whose decorator user_error takes a ValueError and returns.
CmdFind(line) ==
    LET c == parse_command(line)
        args == c.args
    IN /\ AtPrompt(line)
       /\ c.action = wFind
       /\ IF Len(args) = 1
          THEN LET id == find(book, heap, args[1]) IN
               IF id # 0 /\ StrRaises(heap[id], now)
               THEN /\ pc' = "ended"
                    /\ ended' = "ValueError"
                    /\ last' = [NoCall EXCEPT !.op = "find",
                                              !.err = "ValueError"]
                    /\ UNCHANGED <<module, now, adds, atFirst>>
               ELSE Prompt("find", IF id # 0 THEN "ok" ELSE "no_contact")
          ELSE Prompt("find", "arguments")
       /\ UNCHANGED <<heap, book, gen, pages, sinceCall, sinceFirst, touched>>

\* delete name
CmdDelete(line) ==
    LET c == parse_command(line)
        args == c.args
    IN /\ AtPrompt(line)
       /\ c.action = wDelete
       /\ IF Len(args) = 1
          THEN LET bk == delete(book, heap, args[1]) IN
               /\ book' = bk
               /\ heap' = Collect(heap, Referenced(bk, gen, pages))
               /\ Prompt("delete", IF bk # book THEN "ok" ELSE "no_contact")
          ELSE /\ Prompt("delete", "arguments")
               /\ UNCHANGED <<heap, book>>
       /\ UNCHANGED <<gen, pages, sinceCall, sinceFirst, touched>>

\* Any other line, the empty one too: Unknown command.
CmdUnknown(line) ==
    /\ AtPrompt(line)
    /\ parse_command(line).action \notin
          {wAdd, wShow, <<"2">>, wEdit, wFind, wDelete}
    /\ Prompt("unknown", "ok")
    /\ UNCHANGED <<heap, book, gen, pages, sinceCall, sinceFirst, touched>>

Feb29 == <<"2", "0", "0", "0", "-", "0", "2", "-", "2", "9">>
Jan01 == <<"2", "0", "0", "0", "-", "0", "1", "-", "0", "1">>
BadDay == <<"2", "0", "0", "1", "-", "0", "2", "-", "2", "9">>

MainNames == {<<"a">>, <<"b", "2">>}

AddArgs ==
    {<<n>> : n \in MainNames}
    \cup {<<n, p>> : n \in MainNames, p \in {Str10("1"), ShortPhone}}
    \cup {<<n, Str10("1"), Str10("2")>> : n \in MainNames}
    \cup {<<n, Str10("1"), Str10("2"), b>> :
             n \in MainNames, b \in {Feb29, Jan01, BadDay}}

EditArgs ==
    {<<n, Str10("1"), p>> : n \in MainNames, p \in {Str10("2"), AlphaPhone}}
    \cup {<<<<"a">>, Str10("1")>>}

NameArgs == {<<n>> : n \in MainNames} \cup {<<>>}

MainLines ==
    {<<w>> \o a : w \in {wAdd, <<"A", "D", "D">>}, a \in AddArgs}
    \cup {<<wEdit>> \o a : a \in EditArgs}
    \cup {<<w>> \o a : w \in {wFind, wDelete}, a \in NameArgs}
    \cup {<<wShow>>, <<<<"2">>>>, <<wExit>>, <<<<"6">>>>,
          <<<<"E", "X", "I", "T">>>>, <<wExit, <<"a">>>>, <<>>}

NumberTexts == {<<"2">>, <<"1">>, <<"0">>, <<"-", "1">>, <<"x">>, <<>>}

MainTimes == {<<2023, 6, 1, 43200>>, <<2024, 1, 15, 43200>>}

InitMain ==
    /\ module = "main"
    /\ heap = [id \in 1..(MaxBook + 1) |-> NoRecord]
    /\ book = <<>>
    /\ last = NoCall
    /\ gen = NoGen
    /\ pages = <<>>
    /\ sinceCall = {}
    /\ sinceFirst = {}
    /\ touched = FALSE
    /\ atFirst = <<>>
    /\ now \in MainTimes
    /\ adds = 0
    /\ pc = "prompt"
    /\ ended = ""

NextMain ==
    \/ \E line \in MainLines : CmdExit(line)
    \/ \E line \in MainLines : CmdAdd(line)
    \/ \E line \in MainLines, text \in NumberTexts : CmdShow(line, text)
    \/ \E text \in NumberTexts : ShowMore(text)
    \/ \E line \in MainLines : CmdEdit(line)
    \/ \E line \in MainLines : CmdFind(line)
    \/ \E line \in MainLines : CmdDelete(line)
    \/ \E line \in MainLines : CmdUnknown(line)

SpecMain == InitMain /\ [][NextMain]_vars

----------------------------------------------------------------------------
(* What the claims speak of, stated apart from the code.                   *)

TenDigits(s) == s # None /\ Len(s) = 10 /\ \A i \in 1..Len(s) : s[i] \in Digits

LettersOnly(s) == Len(s) > 0 /\ \A i \in 1..Len(s) : s[i] \in Letters

\* The record the last call on a record was made on, and as it is now.
Target == heap[find(book, heap, last.name)]

----------------------------------------------------------------------------
(* Claims on Record, checked under SpecRec.                                *)

\* C1: a record never holds more than 2 phones; add_phone on a record that
\* holds 2 phones fails and leaves the phones as they were; add_phone of a
\* 10-digit number on a record that holds fewer than 2 phones (also after a
\* removal) succeeds and appends the number at the end.
C1_AtMostTwoPhones ==
    /\ \A id \in Range(book) : Len(heap[id].phones) <= 2
    /\ last.op = "add_phone" =>
          LET before == last.pre[1].phones IN
          /\ Len(before) = 2 =>
                last.err = "capacity" /\ Target.phones = before
          /\ (Len(before) < 2 /\ TenDigits(last.a)) =>
                last.err = "ok" /\ Target.phones = Append(before, last.a)

\* The third successful add_phone, which a removal must have preceded, has
\* filled the record again.
C1_Witness ==
    /\ last.op = "add_phone" /\ last.err = "ok"
    /\ adds = 3
    /\ Len(Target.phones) = 2

\* C6: edit_phone(old, new) with new a 10-digit number and some phone equal
\* to old replaces every phone equal to old by new, leaves the others, and
\* keeps the length and the order.
C6_EditReplacesAll ==
    (/\ last.op = "edit_phone"
     /\ TenDigits(last.b)
     /\ \E i \in 1..Len(last.pre[1].phones) : last.pre[1].phones[i] = last.a)
    => LET before == last.pre[1].phones IN
       /\ last.err = "ok"
       /\ Len(Target.phones) = Len(before)
       /\ \A i \in 1..Len(before) :
             Target.phones[i] = IF before[i] = last.a THEN last.b ELSE before[i]

\* [1111111111, 1111111111] has become [2222222222, 2222222222].
C6_Witness ==
    /\ last.op = "edit_phone" /\ last.err = "ok"
    /\ last.pre[1].phones = <<Str10("1"), Str10("1")>>
    /\ Target.phones = <<Str10("2"), Str10("2")>>

\* C10: a failing edit_phone leaves the phones as they were; a new that is
\* not a 10-digit number fails with the format error whether or not a phone
\* equals old; a 10-digit new with no phone equal to old fails with the
\* not-found error.
C10_FailedEditKeepsPhones ==
    last.op = "edit_phone" =>
       LET before == last.pre[1].phones
           match == \E i \in 1..Len(before) : before[i] = last.a
       IN /\ last.err # "ok" => Target.phones = before
          /\ ~TenDigits(last.b) => last.err = "format"
          /\ (TenDigits(last.b) /\ ~match) => last.err = "notfound"

\* An edit with an invalid new has failed on a record that holds old.
C10_Witness ==
    /\ last.op = "edit_phone" /\ last.err = "format"
    /\ \E i \in 1..Len(last.pre[1].phones) : last.pre[1].phones[i] = last.a
    /\ Len(Target.phones) = 2

----------------------------------------------------------------------------
(* Claims on AddressBook.add_contact, checked under Spec.                  *)

NamesOf(recs) == {recs[i].name : i \in 1..Len(recs)}

\* C2: add_contact with a name that is a key of the book reports the
\* duplicate and changes nothing: the same records, with the same phones and
\* birthdays, in the same order.
C2_DuplicateChangesNothing ==
    (last.op = "add_contact" /\ last.name \in NamesOf(last.pre))
    => /\ last.err = "exists"
       /\ Values(book, heap) = last.pre

\* A call with a present name and other phones and birthday than the record
\* under that name holds was refused.
C2_Witness ==
    /\ last.op = "add_contact" /\ last.err = "exists"
    /\ TenDigits(last.a) /\ TenDigits(last.b)
    /\ \E i \in 1..Len(last.pre) :
          /\ last.pre[i].name = last.name
          /\ last.pre[i].phones = <<last.a>>
          /\ last.pre[i].birthday.set /\ last.c = None

\* A birthday string that is a date in the form YYYY-MM-DD.
IsYMD(s) == Strptime(s).ok

\* C3: add_contact inserts all or nothing: with an empty or not letters-only
\* name, a phone1 that is no 10-digit string, a given phone2 that is no
\* 10-digit string or a given birthday that is no valid date, the book stays
\* as it was; otherwise (the name not being present) the book gains exactly
\* one record under the name, with phone1 then phone2 as its phones.
C3_AllOrNothing ==
    (last.op = "add_contact" /\ last.name \notin NamesOf(last.pre))
    => IF \/ ~LettersOnly(last.name)
          \/ ~TenDigits(last.a)
          \/ (Truthy(last.b) /\ ~TenDigits(last.b))
          \/ (Truthy(last.c) /\ ~IsYMD(last.c))
       THEN Values(book, heap) = last.pre
       ELSE LET now_ == Values(book, heap) IN
            /\ Len(now_) = Len(last.pre) + 1
            /\ SubSeq(now_, 1, Len(last.pre)) = last.pre
            /\ now_[Len(now_)].name = last.name
            /\ now_[Len(now_)].phones =
                  IF Truthy(last.b) THEN <<last.a, last.b>> ELSE <<last.a>>

----------------------------------------------------------------------------
(* Claims on AddressBook.iterator, checked under SpecIter.                 *)

RECURSIVE Flatten(_)
Flatten(ps) == IF ps = <<>> THEN <<>> ELSE Head(ps) \o Flatten(Tail(ps))

InPages == UNION {Range(pages[i]) : i \in 1..Len(pages)}

C5_PagesPartitionBook ==
    (gen.status = "done" /\ ~touched /\ gen.page_size >= 1)
    => /\ Flatten(pages) = book
       /\ \A i \in 1..(Len(pages) - 1) : Len(pages[i]) = gen.page_size
       /\ Len(pages) >= 1 =>
             /\ Len(pages[Len(pages)]) >= 1
             /\ Len(pages[Len(pages)]) <= gen.page_size
       /\ book = <<>> => pages = <<>>

\* A book of more records than twice the page size, not a multiple of it,
\* was paged to the end: at least three pages, the last one short.
C5_Witness ==
    /\ gen.status = "done" /\ ~touched /\ gen.page_size = 2
    /\ Len(book) = 2 * gen.page_size + 1
    /\ Len(pages) = 3

\* C9, as claimed: for every page_size the pages drawn are at most as many
\* as the records of the book the generator pages.
C9_PagesBoundedByRecords ==
    gen.status \in {"running", "done"} => Len(pages) <= gen.total_records

----------------------------------------------------------------------------
(* Claim on Record.days_to_birthday, checked under SpecDays.               *)

\* C7: days_to_birthday returns without failing, at every time and for every
\* record: none when the record has no birthday, else a number of days in
\* 0..365, also for a birthday on 29 February.
C7_DaysNeverFail ==
    last.op = "days_to_birthday" =>
       IF last.pre[1].birthday.set
       THEN last.err = "days" /\ last.n >= 0 /\ last.n <= 365
       ELSE last.err = "none"

----------------------------------------------------------------------------
(* Claim on the command loop, checked under SpecMain.                      *)

\* C8: the command loop ends only when the user enters exit or 6: whatever
\* was entered before, the loop is at a prompt, or it has ended on exit.
C8_LoopEndsOnlyOnExit ==
    /\ pc \in {"prompt", "show_more", "ended"}
    /\ pc = "ended" => ended = "exit"

====
